---- MODULE Spec2Model ----
(***************************************************************************)
(* Personal-Tracker: the ExpenseTracker record store of src/webtracker.py, *)
(* its DataManager persistence and the Flask routes that drive it.         *)
(*                                                                         *)
(* Strings are sequences of one-character strings, so that strip(),        *)
(* capitalize(), slicing and strftime are computed and not assumed.        *)
(* Amounts are whole numbers of dollars.  An optional value (a form field  *)
(* that may be missing, Python's None) is a sequence of length 0 or 1.     *)
(***************************************************************************)
EXTENDS Integers, Sequences, FiniteSets, TLC

VARIABLES expenses, budgets, incomes, file, writable, today, last

vars == <<expenses, budgets, incomes, file, writable, today, last>>

(***************************************************************************)
(* Bounds of the model.                                                    *)
(***************************************************************************)
MaxExpenses == 2
MaxIncomes == 1

(***************************************************************************)
(* Text.                                                                   *)
(***************************************************************************)
LowerCase ==
  <<"a","b","c","d","e","f","g","h","i","j","k","l","m",
    "n","o","p","q","r","s","t","u","v","w","x","y","z">>
UpperCase ==
  <<"A","B","C","D","E","F","G","H","I","J","K","L","M",
    "N","O","P","Q","R","S","T","U","V","W","X","Y","Z">>
Whitespace == {" ", "\t", "\n"}

IsLower(c) == \E i \in 1..Len(LowerCase) : LowerCase[i] = c
IsUpper(c) == \E i \in 1..Len(UpperCase) : UpperCase[i] = c

\* str.upper() / str.lower() on one character
upper(c) ==
  IF IsLower(c) THEN UpperCase[CHOOSE i \in 1..Len(LowerCase) : LowerCase[i] = c] ELSE c
lower(c) ==
  IF IsUpper(c) THEN LowerCase[CHOOSE i \in 1..Len(UpperCase) : UpperCase[i] = c] ELSE c

RECURSIVE lstrip(_)
lstrip(s) == IF s # <<>> /\ Head(s) \in Whitespace THEN lstrip(Tail(s)) ELSE s

RECURSIVE rstrip(_)
rstrip(s) ==
  IF s # <<>> /\ s[Len(s)] \in Whitespace THEN rstrip(SubSeq(s, 1, Len(s) - 1)) ELSE s

\* str.strip()
strip(s) == rstrip(lstrip(s))

\* Two characters outside ASCII, written by their code points: U+0149 (latin
\* small letter n preceded by apostrophe) has no upper-case code point of its
\* own, Unicode maps it to the two characters U+02BC (modifier letter
\* apostrophe, which has no case) and N; its lower case is itself.
U0149 == "U+0149"
U02BC == "U+02BC"

\* the title case of one character, as str.capitalize() applies it to the first
title(c) == IF c = U0149 THEN <<U02BC, "N">> ELSE <<upper(c)>>

\* str.capitalize(): first character title case, the rest lower case
capitalize(s) ==
  IF s = <<>> THEN <<>>
  ELSE title(Head(s)) \o [i \in 1..(Len(s) - 1) |-> lower(s[i + 1])]

\* variant of category_cleaned that only strips
category_cleaned_no_capitalize(s) == strip(s)

\* category.strip().capitalize()
category_cleaned(s) == capitalize(strip(s))

\* s[:n]
Prefix(s, n) == SubSeq(s, 1, IF Len(s) < n THEN Len(s) ELSE n)

\* s.startswith(p)
startswith(s, p) == Len(s) >= Len(p) /\ SubSeq(s, 1, Len(p)) = p

(***************************************************************************)
(* The wall clock.  today is datetime.date.today(), cut to year and month. *)
(***************************************************************************)
DigitChars == <<"0","1","2","3","4","5","6","7","8","9">>
Digit(n) == DigitChars[n + 1]

\* strftime('%Y')
strftime_Y(d) ==
  << Digit((d.year \div 1000) % 10), Digit((d.year \div 100) % 10),
     Digit((d.year \div 10) % 10), Digit(d.year % 10) >>

\* strftime('%Y-%m')
strftime_Ym(d) ==
  strftime_Y(d) \o <<"-">> \o << Digit((d.month \div 10) % 10), Digit(d.month % 10) >>

Aug2025 == [year |-> 2025, month |-> 8]
Sep2025 == [year |-> 2025, month |-> 9]
Clock == <<Aug2025, Sep2025>>

(***************************************************************************)
(* Optional values.                                                        *)
(***************************************************************************)
None == <<>>
Some(v) == <<v>>
IsNone(o) == o = <<>>
The(o) == o[1]

(***************************************************************************)
(* Floats.  An amount is a float: a whole number, nan (the value float()   *)
(* gives for the text "nan"), or a fraction between 0 and 1 such as 0.1,   *)
(* which no binary float holds exactly.  A reserved number outside the     *)
(* range of the amounts stands for nan.  A fraction is written             *)
(* Frac(cents, ulps): the float that lies ulps floats above the float      *)
(* nearest to cents/100, so that Frac(45, 0) is 0.45 and Frac(45, -1) is   *)
(* 0.44999999999999996; it is kept as one number beyond FracBase, and its  *)
(* negative as the negative of that number.  Every comparison with nan is  *)
(* false, every sum and difference with nan is nan.                        *)
(***************************************************************************)
nan == -1000000

FracBase == 1000000000

Frac(cents, ulps) == FracBase + 100 * cents + ulps

IsFrac(x) == x > FracBase \/ x < -FracBase

\* a + b on two fractions, rounded to the nearest float as IEEE 754 binary64
\* addition rounds it: <<a, b, a + b>> for the sums of up to three amounts
\* of 0.1 or 0.25
DoubleSums ==
  { <<Frac(10, 0), Frac(10, 0), Frac(20, 0)>>,
    <<Frac(10, 0), Frac(20, 0), Frac(30, 1)>>,
    <<Frac(10, 0), Frac(25, 0), Frac(35, 0)>>,
    <<Frac(10, 0), Frac(35, 0), Frac(45, -1)>>,
    <<Frac(10, 0), Frac(50, 0), Frac(60, 0)>>,
    <<Frac(20, 0), Frac(25, 0), Frac(45, 0)>>,
    <<Frac(25, 0), Frac(25, 0), Frac(50, 0)>>,
    <<Frac(25, 0), Frac(35, 0), Frac(60, 0)>>,
    <<Frac(25, 0), Frac(50, 0), Frac(75, 0)>> }

\* a + b
fadd(a, b) ==
  IF a = nan \/ b = nan THEN nan
  ELSE IF IsFrac(a) \/ IsFrac(b)
  THEN IF a = 0 THEN b
       ELSE IF b = 0 THEN a
       ELSE (CHOOSE t \in DoubleSums : {t[1], t[2]} = {a, b})[3]
  ELSE a + b

\* a - b
fsub(a, b) == IF a = nan \/ b = nan THEN nan ELSE fadd(a, -b)

\* the whole number below a float, and what the float has above it
Whole(x) == IF IsFrac(x) THEN 0 ELSE x
Above(x) == IF ~IsFrac(x) THEN 0 ELSE IF x > 0 THEN x - FracBase ELSE x + FracBase

\* a < b
flt(a, b) ==
  /\ a # nan /\ b # nan
  /\ IF IsFrac(a) \/ IsFrac(b)
     THEN Whole(a) < Whole(b) \/ (Whole(a) = Whole(b) /\ Above(a) < Above(b))
     ELSE a < b

\* a <= b
fle(a, b) == a # nan /\ b # nan /\ (a = b \/ flt(a, b))

(***************************************************************************)
(* Data classes.  Expense(amount, category, date, tag) and                 *)
(* Income(amount, source, date); to_dict / from_dict convert them to and   *)
(* from the JSON objects of the persisted document.                        *)
(***************************************************************************)
Expense(amount, category, date, tag) ==
  [amount |-> amount, category |-> category, date |-> date, tag |-> tag]

Income(amount, source, date) ==
  [amount |-> amount, source |-> source, date |-> date]

Expense_to_dict(e) ==
  [amount |-> e.amount, category |-> e.category, date |-> e.date, tag |-> e.tag]

\* variant of Expense_from_dict that leaves the tag at its default
Expense_from_dict_default_tag(data) ==
  Expense(data["amount"], data["category"], data["date"], <<>>)

\* data.get('tag', "")
Expense_from_dict(data) ==
  Expense(data["amount"], data["category"], data["date"],
          IF "tag" \in DOMAIN data THEN data["tag"] ELSE <<>>)

Income_to_dict(i) ==
  [amount |-> i.amount, source |-> i.source, date |-> i.date]

Income_from_dict(data) ==
  Income(data["amount"], data["source"], data["date"])

(***************************************************************************)
(* DataManager.  The file is None (absent) or Some(content); the content   *)
(* is NotJson (text json.load cannot decode) or a JSON object, a record    *)
(* that may hold the keys expenses, budgets and incomes.                   *)
(***************************************************************************)
EmptyBudgets == [c \in {} |-> 0]

EmptyData == [expenses |-> <<>>, budgets |-> EmptyBudgets, incomes |-> <<>>]

NotJson == [undecodable |-> TRUE]

\* load_data: data starts empty and is filled key by key, expenses, then
\* incomes, then budgets; from_dict raises KeyError on an object that lacks
\* one of its keys, and every exception is answered by returning data as
\* far as it was filled
load_data(f) ==
  IF IsNone(f) \/ The(f) = NotJson THEN EmptyData
  ELSE
    LET loaded_data == The(f)
        expense_dicts == IF "expenses" \in DOMAIN loaded_data THEN loaded_data.expenses ELSE <<>>
        income_dicts == IF "incomes" \in DOMAIN loaded_data THEN loaded_data.incomes ELSE <<>>
        data1 == [EmptyData EXCEPT !.expenses =
                    [i \in 1..Len(expense_dicts) |-> Expense_from_dict(expense_dicts[i])]]
        data2 == [data1 EXCEPT !.incomes =
                    [i \in 1..Len(income_dicts) |-> Income_from_dict(income_dicts[i])]]
        data3 == [data2 EXCEPT !.budgets =
                    IF "budgets" \in DOMAIN loaded_data THEN loaded_data.budgets
                    ELSE EmptyBudgets]
    IN IF \E i \in 1..Len(expense_dicts) :
            ~({"amount", "category", "date"} \subseteq DOMAIN expense_dicts[i])
       THEN EmptyData
       ELSE IF \E i \in 1..Len(income_dicts) :
                 ~({"amount", "source", "date"} \subseteq DOMAIN income_dicts[i])
       THEN data1
       ELSE data3

\* the document written by save_data
save_data(exps, buds, incs) ==
  Some([expenses |-> [i \in 1..Len(exps) |-> Expense_to_dict(exps[i])],
        budgets |-> buds,
        incomes |-> [i \in 1..Len(incs) |-> Income_to_dict(incs[i])]])

(***************************************************************************)
(* ExpenseTracker: helpers.                                                *)
(***************************************************************************)
\* sum(r.amount for r in records)
RECURSIVE SumAmounts(_)
SumAmounts(records) ==
  IF records = <<>> THEN 0
  ELSE fadd(SumAmounts(SubSeq(records, 1, Len(records) - 1)), records[Len(records)].amount)

\* dict.get(key, default)
Get(d, key, default) == IF key \in DOMAIN d THEN d[key] ELSE default

\* the dict d after  del d[key]
Del(d, key) == [k \in DOMAIN d \ {key} |-> d[k]]

\* the dict d after  d[key] = value
Put(d, key, value) == [k \in DOMAIN d \cup {key} |-> IF k = key THEN value ELSE d[k]]

\* variant of Pop that takes index as a 1-based position
Pop_one_based(list, index) ==
  [i \in 1..(Len(list) - 1) |-> IF i < index THEN list[i] ELSE list[i + 1]]

\* the list after  list.pop(index), index a valid 0-based position
Pop(list, index) ==
  [i \in 1..(Len(list) - 1) |-> IF i <= index THEN list[i] ELSE list[i + 1]]

\* code points order the characters; CodeOrder lists them in ascending order
CodeOrder ==
  <<"\t", "\n", " ", "-">> \o DigitChars \o UpperCase \o LowerCase \o <<U0149, U02BC>>
Code(c) == CHOOSE i \in 1..Len(CodeOrder) : CodeOrder[i] = c

\* a < b on str
RECURSIVE StrLess(_, _)
StrLess(a, b) ==
  IF b = <<>> THEN FALSE
  ELSE IF a = <<>> THEN TRUE
  ELSE IF Head(a) = Head(b) THEN StrLess(Tail(a), Tail(b))
  ELSE Code(Head(a)) < Code(Head(b))

\* _get_category_spending: current-month spend per category (a defaultdict,
\* holding only the categories that have an expense dated in the month)
_get_category_spending(exps, now) ==
  LET current_month == strftime_Ym(now)
      InMonth(e) == Prefix(e.date, 7) = current_month
      monthly == SelectSeq(exps, InMonth)
      cats == {monthly[i].category : i \in 1..Len(monthly)}
  IN [c \in cats |-> SumAmounts(SelectSeq(monthly, LAMBDA e : e.category = c))]

(***************************************************************************)
(* ExpenseTracker: what a method returns and leaves behind.  raised says   *)
(* that an exception left the method; saved that _save() was called.       *)
(***************************************************************************)
Ret(exps, buds, incs, saved, ok, msg, alert, removed, count) ==
  [expenses |-> exps, budgets |-> buds, incomes |-> incs, saved |-> saved,
   raised |-> FALSE, ok |-> ok, msg |-> msg, alert |-> alert,
   removed |-> removed, count |-> count]

Raise(exps, buds, incs, saved) ==
  [expenses |-> exps, budgets |-> buds, incomes |-> incs, saved |-> saved,
   raised |-> TRUE, ok |-> FALSE, msg |-> "exception", alert |-> None,
   removed |-> None, count |-> 0]

\* variant of add_expense whose alert test is  current_spent >= budget_limit
add_expense_alert_at_limit(exps, buds, incs, now, amount, category, date_str, tag) ==
  IF IsNone(category) THEN Raise(exps, buds, incs, FALSE)
  ELSE
    LET cleaned == category_cleaned(The(category))
        expense == Expense(amount, cleaned, date_str, strip(tag))
        appended == Append(exps, expense)
        budget_limit == buds[cleaned]
        current_spent == Get(_get_category_spending(appended, now), cleaned, 0)
        alert == IF cleaned \in DOMAIN buds /\ current_spent >= budget_limit
                 THEN Some([category |-> cleaned, limit |-> budget_limit,
                            over |-> current_spent - budget_limit])
                 ELSE None
    IN Ret(appended, buds, incs, TRUE, TRUE, "Expense added successfully.", alert, None, 0)

\* add_expense(amount, category, date_str, tag); category may be None
add_expense(exps, buds, incs, now, amount, category, date_str, tag) ==
  IF IsNone(category) THEN Raise(exps, buds, incs, FALSE)
  ELSE
    LET cleaned == category_cleaned(The(category))
        tag_cleaned == strip(tag)
        expense == Expense(amount, cleaned, date_str, tag_cleaned)
        appended == Append(exps, expense)
        budget_limit == buds[cleaned]
        current_spent == Get(_get_category_spending(appended, now), cleaned, 0)
        alert == IF cleaned \in DOMAIN buds /\ flt(budget_limit, current_spent)
                 THEN Some([category |-> cleaned, limit |-> budget_limit,
                            over |-> fsub(current_spent, budget_limit)])
                 ELSE None
    IN Ret(appended, buds, incs, TRUE, TRUE, "Expense added successfully.", alert, None, 0)

\* add_income(amount, source, date_str); source may be None
add_income(exps, buds, incs, amount, source, date_str) ==
  IF IsNone(source) THEN Raise(exps, buds, incs, FALSE)
  ELSE
    LET source_cleaned == category_cleaned(The(source))
        income == Income(amount, source_cleaned, date_str)
    IN Ret(exps, buds, Append(incs, income), TRUE, TRUE, "Income added successfully", None, None, 0)

\* variant of set_budget that keys the limit by the stripped, uncapitalized name
set_budget_stripped_key(exps, buds, incs, category, amount) ==
  IF IsNone(category) THEN Raise(exps, buds, incs, FALSE)
  ELSE Ret(exps, Put(buds, strip(The(category)), amount), incs, TRUE, TRUE, "Budget set",
           None, None, 0)

\* set_budget(category, amount)
set_budget(exps, buds, incs, category, amount) ==
  IF IsNone(category) THEN Raise(exps, buds, incs, FALSE)
  ELSE
    LET cleaned == category_cleaned(The(category))
    IN Ret(exps, Put(buds, cleaned, amount), incs, TRUE, TRUE, "Budget set", None, None, 0)

\* variant of remove_expense that pops the record and does not call _save()
remove_expense_unsaved(exps, buds, incs, index) ==
  IF IsNone(index)
  THEN Ret(exps, buds, incs, FALSE, FALSE, "Failed to remove expense", None, None, 0)
  ELSE IF 0 <= The(index) /\ The(index) < Len(exps)
  THEN Ret(Pop(exps, The(index)), buds, incs, FALSE, TRUE, "Expense removed successfully.",
           None, Some(exps[The(index) + 1]), 0)
  ELSE Ret(exps, buds, incs, FALSE, FALSE, "Invalid expense index.", None, None, 0)

\* remove_expense(index); index None makes the comparison raise, which is caught
remove_expense(exps, buds, incs, index) ==
  IF IsNone(index)
  THEN Ret(exps, buds, incs, FALSE, FALSE, "Failed to remove expense", None, None, 0)
  ELSE IF 0 <= The(index) /\ The(index) < Len(exps)
  THEN Ret(Pop(exps, The(index)), buds, incs, TRUE, TRUE, "Expense removed successfully.",
           None, Some(exps[The(index) + 1]), 0)
  ELSE Ret(exps, buds, incs, FALSE, FALSE, "Invalid expense index.", None, None, 0)

\* variant of remove_income whose bounds test is  0 <= index <= len(incomes)
\* and which pops nothing at index = len(incomes)
remove_income_bound_inclusive(exps, buds, incs, index) ==
  IF IsNone(index)
  THEN Ret(exps, buds, incs, FALSE, FALSE, "Failed to remove income", None, None, 0)
  ELSE IF 0 <= The(index) /\ The(index) < Len(incs)
  THEN Ret(exps, buds, Pop(incs, The(index)), TRUE, TRUE, "Income removed successfully.",
           None, Some(incs[The(index) + 1]), 0)
  ELSE IF The(index) = Len(incs)
  THEN Ret(exps, buds, incs, FALSE, FALSE, "Failed to remove income", None, None, 0)
  ELSE Ret(exps, buds, incs, FALSE, FALSE, "Invalid income index.", None, None, 0)

\* remove_income(index)
remove_income(exps, buds, incs, index) ==
  IF IsNone(index)
  THEN Ret(exps, buds, incs, FALSE, FALSE, "Failed to remove income", None, None, 0)
  ELSE IF 0 <= The(index) /\ The(index) < Len(incs)
  THEN Ret(exps, buds, Pop(incs, The(index)), TRUE, TRUE, "Income removed successfully.",
           None, Some(incs[The(index) + 1]), 0)
  ELSE Ret(exps, buds, incs, FALSE, FALSE, "Invalid income index.", None, None, 0)

\* variant of delete_budget that looks the raw name up, without cleaning it
delete_budget_raw_name(exps, buds, incs, category_name) ==
  IF IsNone(category_name) THEN Raise(exps, buds, incs, FALSE)
  ELSE
    IF The(category_name) \in DOMAIN buds
    THEN Ret(exps, Del(buds, The(category_name)), incs, TRUE, TRUE,
             "Budget limit removed successfully.", None, None, 0)
    ELSE Ret(exps, buds, incs, FALSE, FALSE, "No budget found for category", None, None, 0)

\* delete_budget(category_name)
delete_budget(exps, buds, incs, category_name) ==
  IF IsNone(category_name) THEN Raise(exps, buds, incs, FALSE)
  ELSE
    LET cleaned == category_cleaned(The(category_name))
    IN IF cleaned \in DOMAIN buds
       THEN Ret(exps, Del(buds, cleaned), incs, TRUE, TRUE, "Budget limit removed successfully.",
                None, None, 0)
       ELSE Ret(exps, buds, incs, FALSE, FALSE, "No budget found for category", None, None, 0)

\* variant of delete_category that removes the expenses and keeps the budget
delete_category_keeps_budget(exps, buds, incs, category_name) ==
  IF IsNone(category_name) THEN Raise(exps, buds, incs, FALSE)
  ELSE
    LET cleaned == category_cleaned(The(category_name))
        kept == SelectSeq(exps, LAMBDA e : e.category # cleaned)
        deleted_count == Len(exps) - Len(kept)
    IN IF deleted_count = 0
       THEN Ret(kept, buds, incs, TRUE, FALSE, "Category not found in expenses or budgets.",
                None, None, deleted_count)
       ELSE Ret(kept, buds, incs, TRUE, TRUE, "Category deleted.", None, None, deleted_count)

\* delete_category(category_name): _save() is called on both outcomes
delete_category(exps, buds, incs, category_name) ==
  IF IsNone(category_name) THEN Raise(exps, buds, incs, FALSE)
  ELSE
    LET cleaned == category_cleaned(The(category_name))
        original_count == Len(exps)
        kept == SelectSeq(exps, LAMBDA e : e.category # cleaned)
        deleted_count == original_count - Len(kept)
        budget_deleted == cleaned \in DOMAIN buds
        buds2 == IF budget_deleted THEN Del(buds, cleaned) ELSE buds
    IN IF deleted_count = 0 /\ ~budget_deleted
       THEN Ret(kept, buds2, incs, TRUE, FALSE, "Category not found in expenses or budgets.",
                None, None, deleted_count)
       ELSE Ret(kept, buds2, incs, TRUE, TRUE,
                IF budget_deleted THEN "Category deleted. Budget limit also removed."
                                  ELSE "Category deleted.",
                None, None, deleted_count)

(***************************************************************************)
(* ExpenseTracker: reporting.                                              *)
(***************************************************************************)
\* list(enumerate(records)): pairs <<0-based index, record>>
enumerate(records) == [i \in 1..Len(records) |-> <<i - 1, records[i]>>]

\* one step of sorted(pairs, key=lambda item: item[1].date, reverse=True):
\* the sort is stable, so a pair goes behind the pairs of the same date
RECURSIVE InsertByDateDesc(_, _)
InsertByDateDesc(item, sorted) ==
  IF sorted = <<>> THEN <<item>>
  ELSE IF StrLess(Head(sorted)[2].date, item[2].date) THEN <<item>> \o sorted
  ELSE <<Head(sorted)>> \o InsertByDateDesc(item, Tail(sorted))

RECURSIVE SortByDateDesc(_)
SortByDateDesc(pairs) ==
  IF pairs = <<>> THEN <<>>
  ELSE InsertByDateDesc(pairs[Len(pairs)], SortByDateDesc(SubSeq(pairs, 1, Len(pairs) - 1)))

\* variant of get_expenses_summary that numbers the rows after sorting them
get_expenses_summary_rows_numbered(exps) ==
  LET sorted == SortByDateDesc(enumerate(exps))
  IN [table |-> [p \in 1..Len(sorted) |-> <<p - 1, sorted[p][2]>>], total |-> SumAmounts(exps)]

\* get_expenses_summary: (indexed_for_table, total_spent)
get_expenses_summary(exps) ==
  [table |-> SortByDateDesc(enumerate(exps)), total |-> SumAmounts(exps)]

\* get_income_summary: (indexed_for_table, total_income)
get_income_summary(incs) ==
  [table |-> SortByDateDesc(enumerate(incs)), total |-> SumAmounts(incs)]

\* variant of _filter_transactions whose 'year' filter keeps the current month
_filter_transactions_year_as_month(records, filter_type, now) ==
  IF filter_type \in {"month", "year"}
  THEN SelectSeq(records, LAMBDA r : startswith(r.date, strftime_Ym(now)))
  ELSE records

\* _filter_transactions(records, filter_type), now being date.today()
_filter_transactions(records, filter_type, now) ==
  IF filter_type = "all" THEN records
  ELSE IF filter_type = "month"
  THEN SelectSeq(records, LAMBDA r : startswith(r.date, strftime_Ym(now)))
  ELSE IF filter_type = "year"
  THEN SelectSeq(records, LAMBDA r : startswith(r.date, strftime_Y(now)))
  ELSE records

\* f"{exp.category}: {exp.tag}" if exp.tag else exp.category
expense_description(exp) ==
  IF exp.tag # <<>> THEN exp.category \o <<":", " ">> \o exp.tag ELSE exp.category

expenses_for_log(exps) ==
  [i \in 1..Len(exps) |->
     [date |-> exps[i].date, amount |-> exps[i].amount,
      description |-> expense_description(exps[i]),
      type |-> "Expense", amount_class |-> "negative"]]

incomes_for_log(incs) ==
  [i \in 1..Len(incs) |->
     [date |-> incs[i].date, amount |-> incs[i].amount, description |-> incs[i].source,
      type |-> "Income", amount_class |-> "positive"]]

\* variant of get_combined_logs that returns the entries as collected
get_combined_logs_unsorted(exps, incs) ==
  expenses_for_log(exps) \o incomes_for_log(incs)

\* get_combined_logs: the entries of both kinds, sorted by date, newest first
get_combined_logs(exps, incs) ==
  LET combined_logs == expenses_for_log(exps) \o incomes_for_log(incs)
      sorted == SortByDateDesc(enumerate(combined_logs))
  IN [i \in 1..Len(sorted) |-> sorted[i][2]]

\* list(d.keys()) of a dict filled in the order of keys: each key once, at
\* the place of its first occurrence
RECURSIVE KeysInOrder(_)
KeysInOrder(keys) ==
  IF keys = <<>> THEN <<>>
  ELSE LET front == KeysInOrder(SubSeq(keys, 1, Len(keys) - 1))
           k == keys[Len(keys)]
       IN IF \E i \in 1..Len(front) : front[i] = k THEN front ELSE Append(front, k)

\* variant of get_category_chart_data that takes all expenses
get_category_chart_data_unfiltered(exps, time_filter, now) ==
  LET labels == KeysInOrder([i \in 1..Len(exps) |-> exps[i].category])
  IN [labels |-> labels,
      data |-> [p \in 1..Len(labels) |->
                  SumAmounts(SelectSeq(exps, LAMBDA e : e.category = labels[p]))]]

\* get_category_chart_data(time_filter)
get_category_chart_data(exps, time_filter, now) ==
  LET filtered_expenses == _filter_transactions(exps, time_filter, now)
      labels == KeysInOrder([i \in 1..Len(filtered_expenses) |-> filtered_expenses[i].category])
  IN [labels |-> labels,
      data |-> [p \in 1..Len(labels) |->
                  SumAmounts(SelectSeq(filtered_expenses, LAMBDA e : e.category = labels[p]))]]

\* sorted(list(set_of_str))
RECURSIVE SortedStrs(_)
SortedStrs(S) ==
  IF S = {} THEN <<>>
  ELSE LET least == CHOOSE x \in S : \A y \in S \ {x} : StrLess(x, y)
       IN <<least>> \o SortedStrs(S \ {least})

\* '%b'
MonthAbbr ==
  << <<"J", "a", "n">>, <<"F", "e", "b">>, <<"M", "a", "r">>, <<"A", "p", "r">>,
     <<"M", "a", "y">>, <<"J", "u", "n">>, <<"J", "u", "l">>, <<"A", "u", "g">>,
     <<"S", "e", "p">>, <<"O", "c", "t">>, <<"N", "o", "v">>, <<"D", "e", "c">> >>

\* the digit a character writes, -1 for any other character
DigitValue(c) ==
  IF \E k \in 1..Len(DigitChars) : DigitChars[k] = c
  THEN (CHOOSE k \in 1..Len(DigitChars) : DigitChars[k] = c) - 1
  ELSE -1

\* strptime(month_key, '%Y-%m').strftime('%b %Y'); the key itself when
\* strptime raises ValueError
month_label(month_key) ==
  LET month == 10 * DigitValue(month_key[6]) + DigitValue(month_key[7])
  IN IF /\ Len(month_key) = 7
        /\ \A i \in {1, 2, 3, 4, 6, 7} : DigitValue(month_key[i]) >= 0
        /\ month_key[5] = "-"
        /\ month \in 1..12
     THEN MonthAbbr[month] \o <<" ">> \o SubSeq(month_key, 1, 4)
     ELSE month_key

\* variant of get_monthly_trend_data that keeps the months in the order met
get_monthly_trend_data_unsorted(exps, time_filter, now) ==
  LET filtered_expenses == _filter_transactions(exps, time_filter, now)
      months == KeysInOrder([i \in 1..Len(filtered_expenses) |->
                               Prefix(filtered_expenses[i].date, 7)])
  IN [labels |-> [p \in 1..Len(months) |-> month_label(months[p])],
      data |-> [p \in 1..Len(months) |->
                  SumAmounts(SelectSeq(filtered_expenses,
                                       LAMBDA e : Prefix(e.date, 7) = months[p]))]]

\* get_monthly_trend_data(time_filter)
get_monthly_trend_data(exps, time_filter, now) ==
  LET filtered_expenses == _filter_transactions(exps, time_filter, now)
      sorted_months == SortedStrs({Prefix(filtered_expenses[i].date, 7) :
                                     i \in 1..Len(filtered_expenses)})
  IN [labels |-> [p \in 1..Len(sorted_months) |-> month_label(sorted_months[p])],
      data |-> [p \in 1..Len(sorted_months) |->
                  SumAmounts(SelectSeq(filtered_expenses,
                                       LAMBDA e : Prefix(e.date, 7) = sorted_months[p]))]]

\* variant of calculate_net_savings that does not filter the expenses by month
calculate_net_savings_all_expenses(exps, incs, now) ==
  LET current_month == strftime_Ym(now)
      InMonth(r) == Prefix(r.date, 7) = current_month
      total_income == SumAmounts(SelectSeq(incs, InMonth))
      total_expense == SumAmounts(exps)
  IN <<total_income, total_expense, total_income - total_expense>>

\* calculate_net_savings: (total_income, total_expense, net_savings)
calculate_net_savings(exps, incs, now) ==
  LET current_month == strftime_Ym(now)
      InMonth(r) == Prefix(r.date, 7) = current_month
      total_income == SumAmounts(SelectSeq(incs, InMonth))
      total_expense == SumAmounts(SelectSeq(exps, InMonth))
  IN <<total_income, total_expense, fsub(total_income, total_expense)>>

\* one row of get_budget_report
budget_row(buds, spending, category) ==
  LET budget == Get(buds, category, 0)
      spent == Get(spending, category, 0)
  IN [category |-> category, budget |-> budget, spent |-> spent,
      remaining |-> fsub(budget, spent),
      status |-> IF flt(budget, spent) /\ flt(0, budget) THEN "OVER BUDGET"
                 ELSE IF budget = 0 THEN "NO BUDGET SET"
                 ELSE "On Track"]

\* variant of get_budget_report that lists the categories that have a budget
get_budget_report_budgets_only(exps, buds, now) ==
  LET spending == _get_category_spending(exps, now)
      categories == SortedStrs(DOMAIN buds)
  IN [i \in 1..Len(categories) |-> budget_row(buds, spending, categories[i])]

\* get_budget_report: one row per category with a budget or current-month spend
get_budget_report(exps, buds, now) ==
  LET spending == _get_category_spending(exps, now)
      categories == SortedStrs(DOMAIN buds \cup DOMAIN spending)
  IN [i \in 1..Len(categories) |-> budget_row(buds, spending, categories[i])]

(***************************************************************************)
(* Requests.  A form is a record holding the fields that were sent;        *)
(* request.form.get(name) is None for a field that was not.                *)
(***************************************************************************)
FormGet(form, name) == IF name \in DOMAIN form THEN Some(form[name]) ELSE None

S_food == <<"f", "o", "o", "d">>
S_Food == <<"F", "o", "o", "d">>
S_FOOD_padded == <<" ", "F", "O", "O", "D", " ">>
S_rent == <<"r", "e", "n", "t">>
S_Rent == <<"R", "e", "n", "t">>
S_RENT_padded == <<" ", "R", "E", "N", "T", " ">>
S_misc == <<"m", "i", "s", "c">>
S_salary == <<"s", "a", "l", "a", "r", "y">>
S_Salary == <<"S", "a", "l", "a", "r", "y">>
S_GIFT_padded == <<" ", "G", "I", "F", "T">>
S_blank == <<" ", " ">>
S_empty == <<>>
S_x_padded == <<" ", "x", " ">>

D_2025_08_01 == <<"2", "0", "2", "5", "-", "0", "8", "-", "0", "1">>
D_2025_09_01 == <<"2", "0", "2", "5", "-", "0", "9", "-", "0", "1">>

ExpenseForm(amount, category, date, tag) ==
  [type |-> "expense", amount |-> amount, category |-> category, date |-> date, tag |-> tag]

IncomeForm(amount, source, date) ==
  [type |-> "income", amount |-> amount, source |-> source, date |-> date]

\* the POSTs to /add_record that the model sends
AddForms ==
  { ExpenseForm(100, S_food, D_2025_08_01, S_empty),
    ExpenseForm(100, S_FOOD_padded, D_2025_09_01, S_x_padded),
    ExpenseForm(750, S_rent, D_2025_08_01, S_empty),
    ExpenseForm(0, S_food, D_2025_08_01, S_empty),
    ExpenseForm(-50, S_rent, D_2025_08_01, S_empty),
    [type |-> "expense", category |-> S_food, date |-> D_2025_08_01, tag |-> S_empty],
    IncomeForm(3000, S_salary, D_2025_08_01),
    IncomeForm(100, S_GIFT_padded, D_2025_09_01),
    IncomeForm(0, S_salary, D_2025_08_01),
    [type |-> "transfer", amount |-> 100, date |-> D_2025_08_01] }

\* the POSTs to /set_budget
BudgetForms ==
  { [category |-> S_Food, amount |-> 50],
    [category |-> S_food, amount |-> 100],
    [category |-> S_FOOD_padded, amount |-> 0],
    [category |-> S_rent, amount |-> 1000],
    [category |-> S_blank, amount |-> 50],
    [category |-> S_food, amount |-> -50],
    [category |-> S_food],
    [amount |-> 50] }

\* the POSTs to /delete_record
DeleteForms ==
  { [type |-> "expense", expense_index |-> i] : i \in -1..MaxExpenses }
  \cup { [type |-> "income", income_index |-> i] : i \in -1..MaxIncomes }
  \cup { [type |-> t, category_name |-> c] :
           t \in {"category", "budget"}, c \in {S_food, S_RENT_padded, S_misc} }
  \cup { [type |-> "expense"], [type |-> "category", category_name |-> S_empty],
         [type |-> "everything"] }

(***************************************************************************)
(* The state: the tracker's three collections, the persisted file, whether *)
(* the file can be written, the wall clock, and the last request with the  *)
(* response it got.                                                        *)
(***************************************************************************)
\* the response of a route that called a tracker method, r what the method returned
Called(route, call, form, r) ==
  [route |-> route, call |-> call, form |-> form,
   status |-> IF r.raised THEN "error" ELSE "redirect",
   ok |-> r.ok, msg |-> r.msg, alert |-> r.alert, removed |-> r.removed,
   count |-> r.count, view |-> None]

\* the response of a route that answered without calling the tracker
Answered(route, form, msg) ==
  [route |-> route, call |-> "none", form |-> form, status |-> "redirect",
   ok |-> FALSE, msg |-> msg, alert |-> None, removed |-> None, count |-> 0,
   view |-> None]

\* the response of a GET route, view what the tracker returned for the page
Viewed(route, call, view) ==
  [route |-> route, call |-> call, form |-> <<>>, status |-> "page",
   ok |-> TRUE, msg |-> "", alert |-> None, removed |-> None, count |-> 0,
   view |-> Some(view)]

\* the tracker and the file after a method returned r: save_data passes
\* over a write that fails, and the file stays as it was
Becomes(r) ==
  /\ expenses' = r.expenses
  /\ budgets' = r.budgets
  /\ incomes' = r.incomes
  /\ file' = IF r.saved /\ writable THEN save_data(r.expenses, r.budgets, r.incomes) ELSE file

\* module import: tracker = ExpenseTracker() with no file on disk
Init ==
  /\ file = None
  /\ writable = TRUE
  /\ expenses = load_data(file).expenses
  /\ budgets = load_data(file).budgets
  /\ incomes = load_data(file).incomes
  /\ today = Clock[1]
  /\ last = Answered("import", <<>>, "")

\* POST /add_record
add_record(form) ==
  LET record_type == FormGet(form, "type")
      amount == FormGet(form, "amount")
  IN IF IsNone(amount) \/ fle(The(amount), 0)
     THEN /\ last' = Answered("add_record", form, "Amount must be a positive number.")
          /\ UNCHANGED <<expenses, budgets, incomes, file>>
     ELSE IF record_type = Some("expense")
     THEN /\ Len(expenses) < MaxExpenses
          /\ LET r == add_expense(expenses, budgets, incomes, today, The(amount),
                                  FormGet(form, "category"), form.date, form.tag)
             IN Becomes(r) /\ last' = Called("add_record", "add_expense", form, r)
     ELSE IF record_type = Some("income")
     THEN /\ Len(incomes) < MaxIncomes
          /\ LET r == add_income(expenses, budgets, incomes, The(amount),
                                 FormGet(form, "source"), form.date)
             IN Becomes(r) /\ last' = Called("add_record", "add_income", form, r)
     ELSE /\ last' = Answered("add_record", form, "Invalid record type submitted.")
          /\ UNCHANGED <<expenses, budgets, incomes, file>>

AddRecord == \E form \in AddForms : add_record(form) /\ UNCHANGED <<today, writable>>

\* POST /set_budget
set_budget_route(form) ==
  LET category == FormGet(form, "category")
      amount == FormGet(form, "amount")
  IN IF IsNone(category) \/ strip(The(category)) = <<>>
     THEN /\ last' = Answered("set_budget", form, "Category cannot be blank.")
          /\ UNCHANGED <<expenses, budgets, incomes, file>>
     ELSE IF IsNone(amount) \/ flt(The(amount), 0)
     THEN /\ last' = Answered("set_budget", form, "Budget amount must be a non-negative number.")
          /\ UNCHANGED <<expenses, budgets, incomes, file>>
     ELSE LET r == set_budget(expenses, budgets, incomes, category, The(amount))
          IN Becomes(r) /\ last' = Called("set_budget", "set_budget", form, r)

SetBudget == \E form \in BudgetForms : set_budget_route(form) /\ UNCHANGED <<today, writable>>

\* POST /delete_record
delete_record(form) ==
  LET record_type == FormGet(form, "type")
      category_name == FormGet(form, "category_name")
  IN IF record_type = Some("expense")
     THEN LET r == remove_expense(expenses, budgets, incomes, FormGet(form, "expense_index"))
          IN Becomes(r) /\ last' = Called("delete_record", "remove_expense", form, r)
     ELSE IF record_type = Some("income")
     THEN LET r == remove_income(expenses, budgets, incomes, FormGet(form, "income_index"))
          IN Becomes(r) /\ last' = Called("delete_record", "remove_income", form, r)
     ELSE IF record_type = Some("category")
     THEN IF IsNone(category_name) \/ The(category_name) = <<>>
          THEN /\ last' = Answered("delete_record", form, "Category name cannot be empty.")
               /\ UNCHANGED <<expenses, budgets, incomes, file>>
          ELSE LET r == delete_category(expenses, budgets, incomes, category_name)
               IN Becomes(r) /\ last' = Called("delete_record", "delete_category", form, r)
     ELSE IF record_type = Some("budget")
     THEN IF IsNone(category_name) \/ The(category_name) = <<>>
          THEN /\ last' = Answered("delete_record", form, "Category name cannot be empty.")
               /\ UNCHANGED <<expenses, budgets, incomes, file>>
          ELSE LET r == delete_budget(expenses, budgets, incomes, category_name)
               IN Becomes(r) /\ last' = Called("delete_record", "delete_budget", form, r)
     ELSE /\ last' = Answered("delete_record", form, "Invalid deletion type submitted.")
          /\ UNCHANGED <<expenses, budgets, incomes, file>>

DeleteRecord == \E form \in DeleteForms : delete_record(form) /\ UNCHANGED <<today, writable>>

\* the process starts again: tracker = ExpenseTracker() loads the file
Restart ==
  /\ expenses' = load_data(file).expenses
  /\ budgets' = load_data(file).budgets
  /\ incomes' = load_data(file).incomes
  /\ last' = Answered("import", <<>>, "")
  /\ UNCHANGED <<file, writable, today>>

\* the wall clock reaches the next month
Tick ==
  /\ \E i \in 1..(Len(Clock) - 1) : today = Clock[i] /\ today' = Clock[i + 1]
  /\ last' = Answered("clock", <<>>, "")
  /\ UNCHANGED <<expenses, budgets, incomes, file, writable>>

\* GET /
Index ==
  /\ last' = Viewed("index", "get_expenses_summary", get_expenses_summary(expenses))
  /\ UNCHANGED <<expenses, budgets, incomes, file, writable, today>>

\* GET /net_savings_report
NetSavingsReport ==
  /\ last' = Viewed("net_savings_report", "calculate_net_savings",
                    calculate_net_savings(expenses, incomes, today))
  /\ UNCHANGED <<expenses, budgets, incomes, file, writable, today>>

\* GET /budgeting
BudgetingPage ==
  /\ last' = Viewed("budgeting_page", "get_budget_report",
                    get_budget_report(expenses, budgets, today))
  /\ UNCHANGED <<expenses, budgets, incomes, file, writable, today>>

Next ==
  \/ AddRecord
  \/ SetBudget
  \/ DeleteRecord
  \/ Index
  \/ NetSavingsReport
  \/ BudgetingPage
  \/ Restart
  \/ Tick

Spec == Init /\ [][Next]_vars

(***************************************************************************)
(* A second specification: the tracker started on whatever file is on      *)
(* disk, and requests with unusual fields (a name in other letters, a      *)
(* blank or absent name, the amount "nan").                                *)
(***************************************************************************)
S_U0149 == <<U0149>>

\* contents of expenses.json at start-up
InitialFiles ==
  { None,
    Some(NotJson),
    Some([budgets |-> [c \in {S_Food} |-> 50]]),
    Some([expenses |-> <<[amount |-> 100, category |-> S_Food, date |-> D_2025_08_01]>>,
          budgets |-> [c \in {S_Food} |-> 50],
          incomes |-> <<[amount |-> 3000, date |-> D_2025_08_01]>>]),
    Some([expenses |-> <<[amount |-> 100, date |-> D_2025_08_01, tag |-> S_empty]>>,
          budgets |-> [c \in {S_Food} |-> 50],
          incomes |-> <<Income_to_dict(Income(3000, S_Salary, D_2025_08_01))>>]) }

EdgeAddForms ==
  { ExpenseForm(100, S_food, D_2025_08_01, S_empty),
    ExpenseForm(100, S_U0149, D_2025_08_01, S_empty),
    ExpenseForm(100, S_blank, D_2025_08_01, S_empty),
    ExpenseForm(nan, S_food, D_2025_08_01, S_empty),
    ExpenseForm(0, S_food, D_2025_08_01, S_empty),
    [type |-> "expense", amount |-> 100, date |-> D_2025_08_01, tag |-> S_empty],
    IncomeForm(100, S_blank, D_2025_08_01),
    [type |-> "income", amount |-> 100, date |-> D_2025_08_01] }

EdgeBudgetForms ==
  { [category |-> S_U0149, amount |-> 50],
    [category |-> S_food, amount |-> nan],
    [category |-> S_blank, amount |-> 50],
    [category |-> S_food, amount |-> -50] }

EdgeDeleteForms ==
  { [type |-> "expense", expense_index |-> 0],
    [type |-> "expense", expense_index |-> MaxExpenses],
    [type |-> "income", income_index |-> 0],
    [type |-> "category", category_name |-> S_U0149],
    [type |-> "category", category_name |-> S_misc],
    [type |-> "budget", category_name |-> S_misc] }

\* module import: tracker = ExpenseTracker() with any of the files on disk
InitEdge ==
  /\ file \in InitialFiles
  /\ writable = TRUE
  /\ expenses = load_data(file).expenses
  /\ budgets = load_data(file).budgets
  /\ incomes = load_data(file).incomes
  /\ today = Clock[1]
  /\ last = Answered("import", <<>>, "")

AddRecordEdge == \E form \in EdgeAddForms : add_record(form) /\ UNCHANGED <<today, writable>>

SetBudgetEdge ==
  \E form \in EdgeBudgetForms : set_budget_route(form) /\ UNCHANGED <<today, writable>>

DeleteRecordEdge ==
  \E form \in EdgeDeleteForms : delete_record(form) /\ UNCHANGED <<today, writable>>

\* the Delete Budget button of a row of the budget report page: the form of
\* get_budget_report_html, whose category_name is the row's category
DeleteBudgetButton ==
  /\ last.route = "budgeting_page"
  /\ \E i \in 1..Len(The(last.view)) :
       /\ The(last.view)[i].category \in DOMAIN budgets
       /\ delete_record([type |-> "budget", category_name |-> The(last.view)[i].category])
  /\ UNCHANGED <<today, writable>>

NextEdge ==
  \/ AddRecordEdge
  \/ SetBudgetEdge
  \/ DeleteRecordEdge
  \/ DeleteBudgetButton
  \/ BudgetingPage
  \/ Restart

SpecEdge == InitEdge /\ [][NextEdge]_vars

(***************************************************************************)
(* A third specification: the file system may stop taking writes, as on a  *)
(* read-only deployment; save_data then fails and passes over it.          *)
(***************************************************************************)
DiskAddForms ==
  { ExpenseForm(100, S_food, D_2025_08_01, S_empty),
    IncomeForm(3000, S_salary, D_2025_08_01) }

DiskBudgetForms == { [category |-> S_food, amount |-> 50] }

DiskDeleteForms ==
  { [type |-> "expense", expense_index |-> 0],
    [type |-> "expense", expense_index |-> MaxExpenses],
    [type |-> "income", income_index |-> 0],
    [type |-> "category", category_name |-> S_food],
    [type |-> "category", category_name |-> S_misc],
    [type |-> "budget", category_name |-> S_food] }

AddRecordDisk == \E form \in DiskAddForms : add_record(form) /\ UNCHANGED <<today, writable>>

SetBudgetDisk ==
  \E form \in DiskBudgetForms : set_budget_route(form) /\ UNCHANGED <<today, writable>>

DeleteRecordDisk ==
  \E form \in DiskDeleteForms : delete_record(form) /\ UNCHANGED <<today, writable>>

\* the file system stops or starts taking writes
DiskChange ==
  /\ writable' = ~writable
  /\ last' = Answered("disk", <<>>, "")
  /\ UNCHANGED <<expenses, budgets, incomes, file, today>>

NextDisk ==
  \/ AddRecordDisk
  \/ SetBudgetDisk
  \/ DeleteRecordDisk
  \/ Restart
  \/ DiskChange

SpecDisk == Init /\ [][NextDisk]_vars

(***************************************************************************)
(* A fourth specification: the listing, log and chart pages over expenses  *)
(* of several months, years and categories.                                *)
(***************************************************************************)
D_2024_12_31 == <<"2", "0", "2", "4", "-", "1", "2", "-", "3", "1">>

ReportAddForms ==
  { ExpenseForm(100, S_food, D_2025_08_01, S_empty),
    ExpenseForm(40, S_FOOD_padded, D_2025_09_01, S_x_padded),
    ExpenseForm(750, S_rent, D_2025_08_01, S_empty),
    ExpenseForm(40, S_rent, D_2024_12_31, S_empty),
    IncomeForm(3000, S_salary, D_2025_08_01),
    IncomeForm(100, S_GIFT_padded, D_2025_09_01) }

ReportDeleteForms ==
  { [type |-> "expense", expense_index |-> i] : i \in 0..MaxExpenses }
  \cup { [type |-> "income", income_index |-> i] : i \in 0..MaxIncomes }

\* request.args.get('filter', 'all')
Filters == {"all", "month", "year", "week"}

AddRecordReports ==
  \E form \in ReportAddForms : add_record(form) /\ UNCHANGED <<today, writable>>

DeleteRecordReports ==
  \E form \in ReportDeleteForms : delete_record(form) /\ UNCHANGED <<today, writable>>

\* GET /income_management
IncomeManagement ==
  /\ last' = Viewed("income_management", "get_income_summary", get_income_summary(incomes))
  /\ UNCHANGED <<expenses, budgets, incomes, file, writable, today>>

\* GET /combined_logs
CombinedLogs ==
  /\ last' = Viewed("combined_logs", "get_combined_logs", get_combined_logs(expenses, incomes))
  /\ UNCHANGED <<expenses, budgets, incomes, file, writable, today>>

\* GET /visualization?filter=...; filtered is what _filter_transactions
\* returns to get_category_chart_data and get_monthly_trend_data
Visualization ==
  /\ \E time_filter \in Filters :
       last' = Viewed("visualization", "get_category_chart_data",
                      [filter |-> time_filter,
                       filtered |-> _filter_transactions(expenses, time_filter, today),
                       category_data |-> get_category_chart_data(expenses, time_filter, today),
                       trend_data |-> get_monthly_trend_data(expenses, time_filter, today)])
  /\ UNCHANGED <<expenses, budgets, incomes, file, writable, today>>

NextReports ==
  \/ AddRecordReports
  \/ DeleteRecordReports
  \/ Index
  \/ IncomeManagement
  \/ CombinedLogs
  \/ Visualization
  \/ Tick

SpecReports == Init /\ [][NextReports]_vars

(***************************************************************************)
(* A fifth specification: amounts with cents.  The tracker starts on a     *)
(* file that an earlier run saved, holding up to three expenses of 0.10    *)
(* and 0.25, and the pages that total the month are read.                  *)
(***************************************************************************)
\* float("0.1"), float("0.25")
F_0_10 == Frac(10, 0)
F_0_25 == Frac(25, 0)

\* contents of expenses.json at start-up
FloatFiles ==
  { None,
    save_data(<<Expense(F_0_10, S_Food, D_2025_08_01, S_empty),
                Expense(F_0_10, S_Rent, D_2025_08_01, S_empty),
                Expense(F_0_25, S_Food, D_2025_08_01, S_empty)>>, EmptyBudgets, <<>>),
    save_data(<<Expense(F_0_10, S_Food, D_2025_08_01, S_empty),
                Expense(F_0_10, S_Food, D_2025_08_01, S_empty),
                Expense(F_0_10, S_Food, D_2025_08_01, S_empty)>>, EmptyBudgets, <<>>) }

FloatAddForms ==
  { ExpenseForm(F_0_10, S_food, D_2025_08_01, S_empty),
    ExpenseForm(F_0_10, S_rent, D_2025_08_01, S_empty),
    ExpenseForm(F_0_25, S_food, D_2025_08_01, S_empty),
    ExpenseForm(F_0_25, S_rent, D_2025_08_01, S_empty) }

FloatDeleteForms == { [type |-> "expense", expense_index |-> i] : i \in 0..MaxExpenses }

\* module import: tracker = ExpenseTracker() with any of the files on disk
InitFloat ==
  /\ file \in FloatFiles
  /\ writable = TRUE
  /\ expenses = load_data(file).expenses
  /\ budgets = load_data(file).budgets
  /\ incomes = load_data(file).incomes
  /\ today = Clock[1]
  /\ last = Answered("import", <<>>, "")

AddRecordFloat ==
  \E form \in FloatAddForms : add_record(form) /\ UNCHANGED <<today, writable>>

DeleteRecordFloat ==
  \E form \in FloatDeleteForms : delete_record(form) /\ UNCHANGED <<today, writable>>

\* GET /visualization?filter=month
VisualizationMonth ==
  /\ last' = Viewed("visualization", "get_category_chart_data",
                    [filter |-> "month",
                     filtered |-> _filter_transactions(expenses, "month", today),
                     category_data |-> get_category_chart_data(expenses, "month", today),
                     trend_data |-> get_monthly_trend_data(expenses, "month", today)])
  /\ UNCHANGED <<expenses, budgets, incomes, file, writable, today>>

NextFloat ==
  \/ AddRecordFloat
  \/ DeleteRecordFloat
  \/ VisualizationMonth
  \/ NetSavingsReport
  \/ BudgetingPage
  \/ Restart

SpecFloat == InitFloat /\ [][NextFloat]_vars

(***************************************************************************)
(* Properties.  The definitions below state what is expected of the        *)
(* tracker, independently of how the methods above compute it.             *)
(***************************************************************************)
\* the number written by a sequence of digit characters
ParseNat(digits) ==
  LET value[n \in 0..Len(digits)] ==
        IF n = 0 THEN 0
        ELSE 10 * value[n - 1] + ((CHOOSE k \in 1..10 : DigitChars[k] = digits[n]) - 1)
  IN value[Len(digits)]

\* the YYYY-MM-DD text date falls in the calendar month of now
InCalendarMonth(date, now) ==
  /\ Len(date) >= 7
  /\ ParseNat(SubSeq(date, 1, 4)) = now.year
  /\ date[5] = "-"
  /\ ParseNat(SubSeq(date, 6, 7)) = now.month

\* the sum of the amounts of the records at the positions in idx
TotalAt(records, idx) ==
  LET total[n \in 0..Len(records)] ==
        IF n = 0 THEN 0
        ELSE total[n - 1] + (IF n \in idx THEN records[n].amount ELSE 0)
  IN total[Len(records)]

Total(records) == TotalAt(records, 1..Len(records))

\* what category c spent in the calendar month of now
MonthSpend(exps, c, now) ==
  TotalAt(exps, {i \in 1..Len(exps) :
                   exps[i].category = c /\ InCalendarMonth(exps[i].date, now)})

\* what all records of the calendar month of now amount to
MonthTotal(records, now) ==
  TotalAt(records, {i \in 1..Len(records) : InCalendarMonth(records[i].date, now)})

\* C1: adding an expense and then removing the record at the last index
\* (len(expenses) - 1) succeeds and gives back the expense sequence, the total
\* of get_expenses_summary, the budgets and the incomes of before the add.
C1_AddThenRemoveRestores ==
  [][ last'.call = "add_expense" /\ ~(last'.status = "error") =>
        LET r == remove_expense(expenses', budgets', incomes', Some(Len(expenses') - 1))
        IN /\ Len(expenses') = Len(expenses) + 1
           /\ r.ok
           /\ r.expenses = expenses
           /\ get_expenses_summary(r.expenses).total = get_expenses_summary(expenses).total
           /\ get_expenses_summary(r.expenses).total = Total(expenses)
           /\ r.budgets = budgets
           /\ r.incomes = incomes ]_vars

\* an expense was added to a store that already held an expense, a budget and an income
C1_Witness ==
  /\ last.call = "add_expense"
  /\ last.ok
  /\ Len(expenses) = 2
  /\ expenses[1] # expenses[2]
  /\ DOMAIN budgets # {}
  /\ incomes # <<>>

\* the limit configured for category c, 0 when there is none
LimitOf(c) == IF c \in DOMAIN budgets THEN budgets[c] ELSE 0

\* the status rule of the budget report, on the page GET /budgeting returned:
\* OVER BUDGET iff the month's spend exceeds a positive limit, NO BUDGET SET
\* iff the limit is 0, On Track otherwise
BudgetStatusRule ==
  last.route = "budgeting_page" =>
    \A i \in 1..Len(The(last.view)) :
      LET row == The(last.view)[i]
          spend == MonthSpend(expenses, row.category, today)
          limit == LimitOf(row.category)
      IN /\ row.status \in {"OVER BUDGET", "NO BUDGET SET", "On Track"}
         /\ row.status = "OVER BUDGET" <=> (limit > 0 /\ spend > limit)
         /\ row.status = "NO BUDGET SET" <=> limit = 0

\* C2: on the budget report a category is OVER BUDGET iff its current-month
\* spend strictly exceeds a positive limit, NO BUDGET SET iff its limit is 0,
\* which is the case exactly when it has no budget entry, and On Track otherwise.
C2_ReportStatus ==
  /\ BudgetStatusRule
  /\ last.route = "budgeting_page" =>
       \A i \in 1..Len(The(last.view)) :
         LET row == The(last.view)[i]
         IN LimitOf(row.category) = 0 <=> row.category \notin DOMAIN budgets

\* C3: add_expense appends the expense and returns success; its message holds
\* a budget alert iff a limit is configured for the normalized category and the
\* category's spend of the current calendar month, the new expense included,
\* strictly exceeds it; the alert reports the spend minus the limit.
C3_AlertIffOverLimit ==
  [][ last'.call = "add_expense" /\ "category" \in DOMAIN last'.form =>
        LET form == last'.form
            c == category_cleaned(form.category)
            spend == MonthSpend(expenses', c, today)
        IN /\ last'.ok
           /\ last'.msg = "Expense added successfully."
           /\ expenses' = Append(expenses, Expense(form.amount, c, form.date, strip(form.tag)))
           /\ budgets' = budgets
           /\ IF c \in DOMAIN budgets /\ spend > budgets[c]
              THEN last'.alert =
                     Some([category |-> c, limit |-> budgets[c], over |-> spend - budgets[c]])
              ELSE last'.alert = None ]_vars

\* an alert was raised only by the sum of two expenses of the month
C3_WitnessAlert ==
  /\ last.call = "add_expense"
  /\ last.alert # None
  /\ Len(expenses) = 2
  /\ The(last.alert).over < expenses[2].amount

\* the requests and records of the worked example: $100 of "food" on
\* 2025-08-01 and a budget of $50 for "Food"
ExampleExpenseForm == ExpenseForm(100, S_food, D_2025_08_01, S_empty)
ExampleExpense == Expense(100, S_Food, D_2025_08_01, S_empty)
ExampleBudgetForm == [category |-> S_Food, amount |-> 50]
ExampleAlert == Some([category |-> S_Food, limit |-> 50, over |-> 50])

\* C4 as stated: from an empty store, add expense ($100, "food", "2025-08-01")
\* and then set budget ("Food", $50): the message add_expense returned reports
\* Food exceeding its budget by $50.
C4_AlertInStatedOrder ==
  [][ ( /\ last.call = "add_expense"
        /\ last.form = ExampleExpenseForm
        /\ expenses = <<ExampleExpense>>
        /\ budgets = EmptyBudgets
        /\ incomes = <<>>
        /\ last'.call = "set_budget"
        /\ last'.form = ExampleBudgetForm )
      => last.alert = ExampleAlert ]_vars

\* C4 amended: with the budget ("Food", $50) set first and today in August
\* 2025, add expense ($100, "food", "2025-08-01") to a store without expenses
\* returns a message reporting Food over its budget of $50 by $50; the same
\* add returns no alert when no budget is set yet or today is in another month.
C4_AlertAfterBudgetSet ==
  ( /\ last.call = "add_expense"
    /\ last.form = ExampleExpenseForm
    /\ Len(expenses) = 1 )
  => /\ expenses = <<ExampleExpense>>
     /\ (budgets = (S_Food :> 50) /\ today = Aug2025) => last.alert = ExampleAlert
     /\ (budgets = EmptyBudgets \/ today # Aug2025) => last.alert = None

\* the example's add, made in August 2025 after the budget was set
C4_Witness ==
  /\ last.call = "add_expense"
  /\ last.form = ExampleExpenseForm
  /\ expenses = <<ExampleExpense>>
  /\ budgets = (S_Food :> 50)
  /\ incomes = <<>>
  /\ today = Aug2025
  /\ last.alert = ExampleAlert

\* the positions of records that hold an expense of category c
PositionsOf(records, c) == {i \in 1..Len(records) : records[i].category = c}

\* sub is records without the records at the positions in gone, order kept
IsWithout(sub, records, gone) ==
  /\ Len(sub) = Len(records) - Cardinality(gone)
  /\ \A i \in (1..Len(records)) \ gone :
       sub[i - Cardinality({j \in gone : j < i})] = records[i]

\* C5: delete_category(c) removes every expense of category normalize(c) and
\* the budget entry of normalize(c), leaves the other expenses (in order), the
\* other budget entries and the incomes as they were, and returns failure iff
\* there was no such expense and no such budget, the store then being unchanged.
C5_DeleteCategory ==
  [][ last'.call = "delete_category" =>
        LET c == category_cleaned(last'.form.category_name)
            gone == PositionsOf(expenses, c)
        IN /\ PositionsOf(expenses', c) = {}
           /\ IsWithout(expenses', expenses, gone)
           /\ DOMAIN budgets' = DOMAIN budgets \ {c}
           /\ \A k \in DOMAIN budgets' : budgets'[k] = budgets[k]
           /\ incomes' = incomes
           /\ last'.count = Cardinality(gone)
           /\ ~last'.ok <=> (gone = {} /\ c \notin DOMAIN budgets)
           /\ ~last'.ok => /\ expenses' = expenses
                           /\ budgets' = budgets
                           /\ load_data(file') = load_data(file) ]_vars

\* a category with an expense and a budget was deleted, and other expenses,
\* another budget and an income stayed
C5_Witness ==
  /\ last.call = "delete_category"
  /\ last.ok
  /\ last.count >= 1
  /\ last.msg = "Category deleted. Budget limit also removed."
  /\ expenses # <<>>
  /\ DOMAIN budgets # {}
  /\ incomes # <<>>

\* a category that has neither expense nor budget was asked to be deleted
C5_WitnessNotFound ==
  /\ last.call = "delete_category"
  /\ ~last.ok
  /\ expenses # <<>>
  /\ DOMAIN budgets # {}

\* C6: calculate_net_savings returns (I, E, I - E), I the sum of the incomes
\* and E the sum of the expenses dated in the current calendar month; with
\* incomes [(3000, "Salary", "2025-08-01")] and expenses [(750, "Rent",
\* "2025-08-01")] in August 2025 it returns (3000, 750, 2250).
C6_NetSavings ==
  last.route = "net_savings_report" =>
    LET I == MonthTotal(incomes, today)
        E == MonthTotal(expenses, today)
    IN /\ The(last.view) = <<I, E, I - E>>
       /\ ( /\ incomes = <<Income(3000, S_Salary, D_2025_08_01)>>
            /\ expenses = <<Expense(750, S_Rent, D_2025_08_01, S_empty)>>
            /\ today = Aug2025 )
          => The(last.view) = <<3000, 750, 2250>>

\* the report of the example's month
C6_Witness ==
  /\ last.route = "net_savings_report"
  /\ incomes = <<Income(3000, S_Salary, D_2025_08_01)>>
  /\ expenses = <<Expense(750, S_Rent, D_2025_08_01, S_empty)>>
  /\ today = Aug2025
  /\ The(last.view) = <<3000, 750, 2250>>

\* a report that leaves out an expense and an income dated in another month
C6_WitnessOtherMonth ==
  /\ last.route = "net_savings_report"
  /\ The(last.view)[1] < Total(incomes)
  /\ 0 < The(last.view)[2]
  /\ The(last.view)[2] < Total(expenses)

RemovalRule(records, after, index, response, invalid_msg) ==
  IF index < 0 \/ index >= Len(records)
  THEN /\ ~response.ok
       /\ response.msg = invalid_msg
       /\ after = records
  ELSE /\ response.ok
       /\ response.removed = Some(records[index + 1])
       /\ Len(after) = Len(records) - 1
       /\ \A i \in 1..Len(after) :
            after[i] = IF i <= index THEN records[i] ELSE records[i + 1]

C8_WitnessInvalid ==
  /\ last.call = "remove_expense"
  /\ ~last.ok
  /\ "expense_index" \in DOMAIN last.form
  /\ last.form.expense_index = Len(expenses)
  /\ Len(expenses) >= 1

\* C9: delete_budget(c) fails and changes nothing when normalize(c) has no
\* budget; otherwise it removes that entry alone and returns success, every
\* expense (those of c too), every income and every other entry staying.
C9_DeleteBudget ==
  [][ last'.call = "delete_budget" =>
        LET c == category_cleaned(last'.form.category_name)
        IN /\ expenses' = expenses
           /\ incomes' = incomes
           /\ IF c \in DOMAIN budgets
              THEN /\ last'.ok
                   /\ last'.msg = "Budget limit removed successfully."
                   /\ DOMAIN budgets' = DOMAIN budgets \ {c}
                   /\ \A k \in DOMAIN budgets' : budgets'[k] = budgets[k]
              ELSE /\ ~last'.ok
                   /\ last'.msg = "No budget found for category"
                   /\ budgets' = budgets
                   /\ file' = file ]_vars

\* the budget of a category was deleted by a name written differently, the
\* category's expense and another budget stayed
C9_Witness ==
  /\ last.call = "delete_budget"
  /\ last.ok
  /\ last.form.category_name # category_cleaned(last.form.category_name)
  /\ PositionsOf(expenses, category_cleaned(last.form.category_name)) # {}
  /\ DOMAIN budgets # {}
  /\ incomes # <<>>

\* a budget that does not exist was asked to be deleted
C9_WitnessNotFound ==
  /\ last.call = "delete_budget"
  /\ ~last.ok
  /\ DOMAIN budgets # {}

\* C10: set_budget(c, amount) is an upsert: afterwards normalize(c) has the
\* limit amount, in the one entry that any spelling of the name has, the
\* limits of the other categories, the expenses and the incomes are as before.
C10_SetBudgetUpsert ==
  [][ last'.call = "set_budget" =>
        LET c == category_cleaned(last'.form.category)
        IN /\ last'.ok
           /\ DOMAIN budgets' = DOMAIN budgets \cup {c}
           /\ budgets'[c] = last'.form.amount
           /\ \A k \in DOMAIN budgets' : category_cleaned(k) = c => k = c
           /\ \A k \in DOMAIN budgets \ {c} : budgets'[k] = budgets[k]
           /\ expenses' = expenses
           /\ incomes' = incomes ]_vars

\* a limit was set by a call that spelled the category differently from its
\* key, beside another budget, an expense and an income
C10_Witness ==
  /\ last.call = "set_budget"
  /\ last.form.category # category_cleaned(last.form.category)
  /\ Cardinality(DOMAIN budgets) = 2
  /\ expenses # <<>>
  /\ incomes # <<>>

\* the requests that carry a form
FormRoutes == {"add_record", "set_budget", "delete_record"}

\* C11: every stored expense category, every stored income source and every
\* budget key equals its own normalization (trimmed, first letter upper-case,
\* rest lower-case).
C11_StoredNamesNormalized ==
  /\ \A i \in 1..Len(expenses) : category_cleaned(expenses[i].category) = expenses[i].category
  /\ \A i \in 1..Len(incomes) : category_cleaned(incomes[i].source) = incomes[i].source
  /\ \A k \in DOMAIN budgets : category_cleaned(k) = k

\* C12: normalization is idempotent: for every category or source s that a
\* request carries, normalize(normalize(s)) = normalize(s).
C12_NormalizeIdempotent ==
  last.route \in FormRoutes =>
    \A name \in {"category", "source", "category_name"} \cap DOMAIN last.form :
      category_cleaned(category_cleaned(last.form[name])) = category_cleaned(last.form[name])

\* the tracker methods that change the store
MutatingCalls ==
  {"add_expense", "add_income", "set_budget", "remove_expense", "remove_income",
   "delete_budget", "delete_category"}

\* the document f holds exactly these expenses, budgets and incomes, and a
\* tracker constructed from it starts with them
Persisted(f, exps, buds, incs) ==
  /\ ~IsNone(f)
  /\ DOMAIN The(f) = {"expenses", "budgets", "incomes"}
  /\ The(f).budgets = buds
  /\ Len(The(f).expenses) = Len(exps)
  /\ \A i \in 1..Len(exps) :
       /\ DOMAIN The(f).expenses[i] = {"amount", "category", "date", "tag"}
       /\ \A k \in {"amount", "category", "date", "tag"} : The(f).expenses[i][k] = exps[i][k]
  /\ Len(The(f).incomes) = Len(incs)
  /\ \A i \in 1..Len(incs) :
       /\ DOMAIN The(f).incomes[i] = {"amount", "source", "date"}
       /\ \A k \in {"amount", "source", "date"} : The(f).incomes[i][k] = incs[i][k]
  /\ load_data(f) = [expenses |-> exps, budgets |-> buds, incomes |-> incs]

C13_WitnessWriteFailed ==
  /\ last.call = "add_expense" /\ last.ok /\ ~writable
  /\ ~Persisted(file, expenses, budgets, incomes)

\* the persisted state is missing or malformed: no file, no JSON, or a
\* record that cannot be decoded for want of one of its fields
Malformed(f) ==
  \/ IsNone(f)
  \/ The(f) = NotJson
  \/ /\ "expenses" \in DOMAIN The(f)
     /\ \E i \in 1..Len(The(f).expenses) :
          \E k \in {"amount", "category", "date"} : k \notin DOMAIN The(f).expenses[i]
  \/ /\ "incomes" \in DOMAIN The(f)
     /\ \E i \in 1..Len(The(f).incomes) :
          \E k \in {"amount", "source", "date"} : k \notin DOMAIN The(f).incomes[i]

\* C14: a tracker constructed while the persisted state is missing or
\* malformed starts with expenses, incomes and budgets all empty, never with a
\* part of the file.
C14_MalformedStartsEmpty ==
  last.route = "import" /\ Malformed(file) =>
    expenses = <<>> /\ budgets = EmptyBudgets /\ incomes = <<>>

\* the form lacks the field, or the field holds nothing but whitespace
BlankOrMissing(form, name) ==
  name \in DOMAIN form => \A i \in 1..Len(form[name]) : form[name][i] \in Whitespace

\* the form lacks the index, or the index is no position of the records
InvalidIndex(form, name, records) ==
  name \in DOMAIN form => form[name] \notin 0..(Len(records) - 1)

\* the request is one that validation is to refuse
InvalidRequest(route, form) ==
  LET type == IF "type" \in DOMAIN form THEN form.type ELSE "" IN
  \/ /\ route = "add_record"
     /\ \/ "amount" \notin DOMAIN form
        \/ form.amount # nan /\ form.amount <= 0
        \/ type = "expense" /\ BlankOrMissing(form, "category")
        \/ type = "income" /\ BlankOrMissing(form, "source")
  \/ /\ route = "set_budget"
     /\ \/ "amount" \notin DOMAIN form
        \/ form.amount # nan /\ form.amount < 0
        \/ BlankOrMissing(form, "category")
  \/ /\ route = "delete_record"
     /\ \/ type = "expense" /\ InvalidIndex(form, "expense_index", expenses)
        \/ type = "income" /\ InvalidIndex(form, "income_index", incomes)
        \/ /\ type \in {"category", "budget"}
           /\ \/ BlankOrMissing(form, "category_name")
              \/ /\ category_cleaned(form.category_name) \notin DOMAIN budgets
                 /\ \/ type = "budget"
                    \/ \A i \in 1..Len(expenses) :
                         expenses[i].category # category_cleaned(form.category_name)

\* C15: a request with a non-positive or missing amount, a blank or missing
\* category or source, an invalid or missing index, or a category or budget
\* that is not found is answered without an exception escaping, with
\* success = False, and leaves expenses, incomes and budgets unchanged.
C15_ValidationFailures ==
  [][ last'.route \in FormRoutes /\ InvalidRequest(last'.route, last'.form) =>
        /\ last'.status # "error"
        /\ ~last'.ok
        /\ UNCHANGED <<expenses, budgets, incomes>> ]_vars

\* the amount is a number greater than zero / not less than zero
StrictlyPositive(a) == a # nan /\ a > 0
NonNegative(a) == a # nan /\ a >= 0

\* C16: every stored expense amount and income amount is strictly positive
\* and every budget limit is non-negative; a request with amount <= 0 to
\* add_record, or amount < 0 to set_budget, is answered without a call to the
\* store.
C16_StoredAmounts ==
  [][ /\ \A i \in 1..Len(expenses') : StrictlyPositive(expenses'[i].amount)
      /\ \A i \in 1..Len(incomes') : StrictlyPositive(incomes'[i].amount)
      /\ \A k \in DOMAIN budgets' : NonNegative(budgets'[k])
      /\ last'.route \in {"add_record", "set_budget"} /\ "amount" \in DOMAIN last'.form
            /\ ~(IF last'.route = "add_record" THEN StrictlyPositive(last'.form.amount)
                                               ELSE NonNegative(last'.form.amount))
          => last'.call = "none" /\ UNCHANGED <<expenses, budgets, incomes>> ]_vars

\* the day a YYYY-MM-DD text date names, as the number YYYYMMDD
DateNum(date) ==
  10000 * ParseNat(SubSeq(date, 1, 4)) + 100 * ParseNat(SubSeq(date, 6, 7))
    + ParseNat(SubSeq(date, 9, 10))

\* a listing of the records: one pair (i, record) per record, every index
\* 0..n-1 once, the record the one at store position i, newest first, with
\* the sum of all amounts as total
ListingRule(view, records) ==
  LET n == Len(records) IN
  /\ Len(view.table) = n
  /\ \A i \in 0..(n - 1) : Cardinality({p \in 1..n : view.table[p][1] = i}) = 1
  /\ \A p \in 1..n : view.table[p][2] = records[view.table[p][1] + 1]
  /\ \A p \in 1..(n - 1) :
       DateNum(view.table[p][2].date) >= DateNum(view.table[p + 1][2].date)
  /\ view.total = Total(records)

\* a remove request that follows a listing with an index of the listing
\* removes the record the listing paired with the index
RemovesListed(listing, name, response, records, after) ==
  \A p \in 1..Len(listing.table) :
    response.form[name] = listing.table[p][1] =>
      /\ response.ok
      /\ response.removed = Some(listing.table[p][2])
      /\ IsWithout(after, records, {listing.table[p][1] + 1})

C17_WitnessRemoved ==
  /\ last.call = "remove_expense" /\ last.ok
  /\ last.form.expense_index = 1
  /\ Len(expenses) = 1
  /\ DateNum(The(last.removed).date) > DateNum(expenses[1].date)

\* how many of the records / log entries have this date and this amount
CountOf(seq, date, amount) ==
  Cardinality({i \in 1..Len(seq) : seq[i].date = date /\ seq[i].amount = amount})

\* the entries of the log that carry the type
OfType(logs, type) == SelectSeq(logs, LAMBDA entry : entry.type = type)

\* C18: get_combined_logs returns len(expenses) + len(incomes) entries, one per
\* stored record, typed 'Expense' or 'Income' after the collection the record
\* is in and carrying its date and amount, dates non-increasing; the call does
\* not change the store.
C18_CombinedLogs ==
  [][ last'.route = "combined_logs" =>
        LET logs == The(last'.view) IN
        /\ Len(logs) = Len(expenses) + Len(incomes)
        /\ \A p \in 1..Len(logs) : logs[p].type \in {"Expense", "Income"}
        /\ Len(OfType(logs, "Expense")) = Len(expenses)
        /\ Len(OfType(logs, "Income")) = Len(incomes)
        /\ \A i \in 1..Len(expenses) :
             CountOf(OfType(logs, "Expense"), expenses[i].date, expenses[i].amount)
               = CountOf(expenses, expenses[i].date, expenses[i].amount)
        /\ \A i \in 1..Len(incomes) :
             CountOf(OfType(logs, "Income"), incomes[i].date, incomes[i].amount)
               = CountOf(incomes, incomes[i].date, incomes[i].amount)
        /\ \A p \in 1..(Len(logs) - 1) : DateNum(logs[p].date) >= DateNum(logs[p + 1].date)
        /\ UNCHANGED <<expenses, budgets, incomes, file>> ]_vars

\* the log of two expenses and an income: the September expense first, then
\* the August income, then the expense of December 2024
C18_Witness ==
  /\ last.route = "combined_logs"
  /\ Len(expenses) = 2 /\ Len(incomes) = 1
  /\ expenses[1].date = D_2024_12_31
  /\ Len(The(last.view)) = 3
  /\ The(last.view)[1].type = "Expense" /\ The(last.view)[1].date = D_2025_09_01
  /\ The(last.view)[2].type = "Income" /\ The(last.view)[2].date = D_2025_08_01
  /\ The(last.view)[3].type = "Expense" /\ The(last.view)[3].date = D_2024_12_31

\* the date falls in the period the filter names: the calendar month or the
\* calendar year of now, or any time
InPeriod(date, filter, now) ==
  IF filter = "month" THEN InCalendarMonth(date, now)
  ELSE IF filter = "year" THEN ParseNat(SubSeq(date, 1, 4)) = now.year
  ELSE TRUE

\* the positions of the expenses the filter keeps
Filtered(exps, filter, now) == {i \in 1..Len(exps) : InPeriod(exps[i].date, filter, now)}

\* the sum of a sequence of numbers
SeqSum(values) ==
  LET total[n \in 0..Len(values)] == IF n = 0 THEN 0 ELSE total[n - 1] + values[n]
  IN total[Len(values)]

\* C19: get_category_chart_data(filter) returns as many labels as values, one
\* label per distinct category among the period-filtered expenses and no
\* other, each value the sum of the filtered expenses of its category; the
\* values add up to the total of the filtered expenses.
C19_CategoryChart ==
  last.route = "visualization" =>
    LET chart == The(last.view).category_data
        kept == Filtered(expenses, The(last.view).filter, today)
    IN /\ Len(chart.labels) = Len(chart.data)
       /\ \A p, q \in 1..Len(chart.labels) : chart.labels[p] = chart.labels[q] => p = q
       /\ {chart.labels[p] : p \in 1..Len(chart.labels)} = {expenses[i].category : i \in kept}
       /\ \A p \in 1..Len(chart.labels) :
            chart.data[p] = TotalAt(expenses, {i \in kept : expenses[i].category = chart.labels[p]})
       /\ SeqSum(chart.data) = TotalAt(expenses, kept)

\* the chart of the current month, with two expenses of one category, one of
\* them of another month
C19_Witness ==
  /\ last.route = "visualization"
  /\ The(last.view).filter = "month"
  /\ Len(expenses) = 2
  /\ expenses[1].category = expenses[2].category
  /\ The(last.view).category_data = [labels |-> <<S_Food>>, data |-> <<100>>]

\* the chart of all expenses, two categories
C19_WitnessAll ==
  /\ last.route = "visualization"
  /\ The(last.view).filter = "all"
  /\ The(last.view).category_data = [labels |-> <<S_Rent, S_Food>>, data |-> <<750, 40>>]

\* the month a YYYY-MM-DD text date falls in, as the number YYYYMM
MonthNum(date) == 100 * ParseNat(SubSeq(date, 1, 4)) + ParseNat(SubSeq(date, 6, 7))

\* C20: get_monthly_trend_data(filter) returns as many labels as values, one
\* entry per distinct month among the period-filtered expenses, in
\* chronological order, each label naming its month and each value the sum of
\* the filtered expenses of that month; the values add up to the total of the
\* filtered expenses.
C20_MonthlyTrend ==
  last.route = "visualization" =>
    LET trend == The(last.view).trend_data
        kept == Filtered(expenses, The(last.view).filter, today)
        months == {MonthNum(expenses[i].date) : i \in kept}
        \* the p-th month in chronological order
        nth(p) == CHOOSE m \in months : Cardinality({x \in months : x < m}) = p - 1
    IN /\ Len(trend.labels) = Len(trend.data)
       /\ Len(trend.data) = Cardinality(months)
       /\ \A p \in 1..Len(trend.data) :
            trend.data[p] = TotalAt(expenses, {i \in kept : MonthNum(expenses[i].date) = nth(p)})
       /\ \A p \in 1..Len(trend.labels) :
            trend.labels[p] = MonthAbbr[nth(p) % 100] \o <<" ">> \o strftime_Y([year |-> nth(p) \div 100])
       /\ SeqSum(trend.data) = TotalAt(expenses, kept)

\* the trend of all expenses, the September expense added before the one of
\* December 2024: December comes first
C20_Witness ==
  /\ last.route = "visualization"
  /\ The(last.view).filter = "all"
  /\ Len(expenses) = 2
  /\ expenses[1].date = D_2025_09_01 /\ expenses[2].date = D_2024_12_31
  /\ The(last.view).trend_data.data = <<40, 40>>
  /\ Len(The(last.view).trend_data.labels) = 2
  /\ The(last.view).trend_data.labels[1] = <<"D", "e", "c", " ", "2", "0", "2", "4">>

\* the trend of the current year leaves the expense of December 2024 out
C20_WitnessYear ==
  /\ last.route = "visualization"
  /\ The(last.view).filter = "year"
  /\ Len(expenses) = 2
  /\ expenses[2].date = D_2024_12_31
  /\ The(last.view).trend_data.data = <<750>>

\* C21: get_budget_report lists exactly the categories that have a budget
\* entry or an expense dated in the current month, each once; a row's budget
\* is the configured limit (0 when none), its spent the sum of the category's
\* current-month expenses (0 when none), its remaining budget - spent.
C21_BudgetReport ==
  last.route = "budgeting_page" =>
    LET report == The(last.view) IN
    /\ {report[p].category : p \in 1..Len(report)}
         = DOMAIN budgets
           \cup {expenses[i].category :
                   i \in {j \in 1..Len(expenses) : InCalendarMonth(expenses[j].date, today)}}
    /\ \A p, q \in 1..Len(report) : report[p].category = report[q].category => p = q
    /\ \A p \in 1..Len(report) :
         /\ report[p].budget = LimitOf(report[p].category)
         /\ report[p].spent = MonthSpend(expenses, report[p].category, today)
         /\ report[p].remaining = report[p].budget - report[p].spent

\* the report of September, no budgets: Food, spent in September, is listed,
\* Rent, spent in August only, is not
C21_Witness ==
  /\ last.route = "budgeting_page"
  /\ today = Sep2025
  /\ budgets = EmptyBudgets
  /\ Len(expenses) = 2
  /\ {expenses[1].category, expenses[2].category} = {S_Food, S_Rent}
  /\ Len(The(last.view)) = 1
  /\ The(last.view)[1].category = S_Food
  /\ The(last.view)[1].budget = 0 /\ The(last.view)[1].spent = 100
  /\ The(last.view)[1].remaining = -100

\* the report lists a category that has a budget and no expense at all
C21_WitnessBudgetOnly ==
  /\ last.route = "budgeting_page"
  /\ expenses = <<>>
  /\ Len(The(last.view)) = 2
  /\ The(last.view)[2].category = S_Rent
  /\ The(last.view)[2].budget = 1000 /\ The(last.view)[2].spent = 0

\* the records at the positions in keep, in their order
RECURSIVE Kept(_, _)
Kept(records, keep) ==
  IF records = <<>> THEN <<>>
  ELSE LET front == Kept(SubSeq(records, 1, Len(records) - 1), keep)
       IN IF Len(records) \in keep THEN Append(front, records[Len(records)]) ELSE front

\* sub can be had from seq by leaving elements out
RECURSIVE IsSubSeq(_, _)
IsSubSeq(sub, seq) ==
  IF sub = <<>> THEN TRUE
  ELSE IF seq = <<>> THEN FALSE
  ELSE IF Head(sub) = Head(seq) THEN IsSubSeq(Tail(sub), Tail(seq))
  ELSE IsSubSeq(sub, Tail(seq))

\* C22: _filter_transactions returns every record for 'all', exactly the
\* records dated in the calendar month of today for 'month' and in the
\* calendar year of today for 'year', in their original order; the result for
\* 'month' is a sub-sequence of that for 'year', which is one of that for
\* 'all'; the records are left as they were.
C22_FilterTransactions ==
  [][ last'.route = "visualization" /\ The(last'.view).filter \in {"all", "month", "year"} =>
        LET period == The(last'.view).filter
            of_month == _filter_transactions(expenses, "month", today)
            of_year == _filter_transactions(expenses, "year", today)
            of_all == _filter_transactions(expenses, "all", today)
        IN /\ The(last'.view).filtered = Kept(expenses, Filtered(expenses, period, today))
           /\ period = "all" => The(last'.view).filtered = expenses
           /\ IsSubSeq(of_month, of_year)
           /\ IsSubSeq(of_year, of_all)
           /\ of_all = expenses
           /\ UNCHANGED <<expenses, budgets, incomes, today>> ]_vars

\* the three filters on an expense of September 2025 and one of December
\* 2024, in August 2025: 'year' keeps the first only
C22_Witness ==
  /\ last.route = "visualization"
  /\ The(last.view).filter = "year"
  /\ today = Aug2025
  /\ Len(expenses) = 2
  /\ expenses[1].date = D_2025_09_01 /\ expenses[2].date = D_2024_12_31
  /\ The(last.view).filtered = <<expenses[1]>>

\* 'month' keeps the second of two expenses, the first being of another month
C22_WitnessMonth ==
  /\ last.route = "visualization"
  /\ The(last.view).filter = "month"
  /\ Len(expenses) = 2
  /\ The(last.view).filtered = <<expenses[2]>>

\* sum(values) on floats
FloatSum(values) ==
  LET total[n \in 0..Len(values)] == IF n = 0 THEN 0 ELSE fadd(total[n - 1], values[n])
  IN total[Len(values)]

\* C23: the current-month aggregations agree: get_category_chart_data('month')
\* gives the category-to-sum mapping of _get_category_spending(), and the sum
\* of that mapping over its categories equals the total_expense of
\* calculate_net_savings and the sum of the spent fields of get_budget_report.
C23_AggregationsAgree ==
  LET chart == get_category_chart_data(expenses, "month", today)
      spending == _get_category_spending(expenses, today)
      report == get_budget_report(expenses, budgets, today)
      total_expense == calculate_net_savings(expenses, incomes, today)[2]
  IN /\ Len(chart.labels) = Len(chart.data)
     /\ \A p, q \in 1..Len(chart.labels) : chart.labels[p] = chart.labels[q] => p = q
     /\ {chart.labels[p] : p \in 1..Len(chart.labels)} = DOMAIN spending
     /\ \A p \in 1..Len(chart.labels) : chart.data[p] = spending[chart.labels[p]]
     /\ FloatSum(chart.data) = total_expense
     /\ FloatSum([p \in 1..Len(report) |-> report[p].spent]) = total_expense

\* C24: the budget alert and the budget report agree: right after add_expense
\* on a category returned, its message holds a budget alert if and only if
\* get_budget_report lists the category with status OVER BUDGET.
C24_AlertAgreesWithReport ==
  last.call = "add_expense" /\ last.status = "redirect" =>
    LET c == category_cleaned(last.form.category)
        report == get_budget_report(expenses, budgets, today)
    IN last.alert # None <=>
         \E i \in 1..Len(report) : report[i].category = c /\ report[i].status = "OVER BUDGET"
====
